---- MODULE Spec2Model ----
(***************************************************************************)
(* Model of demo.py: the path normaliser normalize_path and the single    *)
(* sequential run of main (credential, path, file, question, prompt,      *)
(* chat-completion request, answer).                                      *)
(*                                                                         *)
(* A Python str is a sequence of one-character strings.  A value that may *)
(* be None is either None (below) or such a sequence.                     *)
(***************************************************************************)
EXTENDS Integers, Sequences, FiniteSets, TLC

(***************************************************************************)
(* Bounds of the model.                                                    *)
(***************************************************************************)
\* longest string handed to normalize_path in NormSpec
MaxPathLen ==
    4
\* longest answer text a choice of the response carries
MaxAnswerLen ==
    2
\* most choices a response carries
MaxChoices ==
    2
\* how far the longest document exceeds the truncation budget
MaxExtra ==
    1

(***************************************************************************)
(* String literals of the program.                                         *)
(***************************************************************************)
\* 'Enter path to your text file: '
PathPrompt ==
    <<"E", "n", "t", "e", "r", " ", "p", "a", "t", "h", " ", "t", "o", " ",
      "y", "o", "u", "r", " ", "t", "e", "x", "t", " ", "f", "i", "l", "e",
      ":", " ">>

\* 'Enter your question about the document: '
QuestionPrompt ==
    <<"E", "n", "t", "e", "r", " ", "y", "o", "u", "r", " ", "q", "u", "e",
      "s", "t", "i", "o", "n", " ", "a", "b", "o", "u", "t", " ", "t", "h",
      "e", " ", "d", "o", "c", "u", "m", "e", "n", "t", ":", " ">>

\* 'File not found.'
NotFoundMsg ==
    <<"F", "i", "l", "e", " ", "n", "o", "t", " ", "f", "o", "u", "n", "d",
      ".">>

\* 'Please set your GEMINI_API_KEY environment variable.'
KeyErrorMsg ==
    <<"P", "l", "e", "a", "s", "e", " ", "s", "e", "t", " ", "y", "o", "u",
      "r", " ", "G", "E", "M", "I", "N", "I", "_", "A", "P", "I", "_", "K",
      "E", "Y", " ", "e", "n", "v", "i", "r", "o", "n", "m", "e", "n", "t",
      " ", "v", "a", "r", "i", "a", "b", "l", "e", ".">>

\* '\n=== Answer ==='
AnswerHeader ==
    <<"\n", "=", "=", "=", " ", "A", "n", "s", "w", "e", "r", " ", "=", "=",
      "=">>

\* '\n    You are an assistant that extracts information from documents.\n    Document:\n    ---\n    '
PromptHead ==
    <<"\n", " ", " ", " ", " ", "Y", "o", "u", " ", "a", "r", "e", " ", "a",
      "n", " ", "a", "s", "s", "i", "s", "t", "a", "n", "t", " ", "t", "h",
      "a", "t", " ", "e", "x", "t", "r", "a", "c", "t", "s", " ", "i", "n",
      "f", "o", "r", "m", "a", "t", "i", "o", "n", " ", "f", "r", "o", "m",
      " ", "d", "o", "c", "u", "m", "e", "n", "t", "s", ".", "\n", " ", " ",
      " ", " ", "D", "o", "c", "u", "m", "e", "n", "t", ":", "\n", " ", " ",
      " ", " ", "-", "-", "-", "\n", " ", " ", " ", " ">>

\* '\n    ---\n    Question: '
PromptMid ==
    <<"\n", " ", " ", " ", " ", "-", "-", "-", "\n", " ", " ", " ", " ", "Q",
      "u", "e", "s", "t", "i", "o", "n", ":", " ">>

\* '\n    Provide a concise and clear answer.\n    '
PromptTail ==
    <<"\n", " ", " ", " ", " ", "P", "r", "o", "v", "i", "d", "e", " ", "a",
      " ", "c", "o", "n", "c", "i", "s", "e", " ", "a", "n", "d", " ", "c",
      "l", "e", "a", "r", " ", "a", "n", "s", "w", "e", "r", ".", "\n", " ",
      " ", " ", " ">>

\* '/mnt/'
Mnt ==
    <<"/", "m", "n", "t", "/">>

\* the slice bound of content[:4000]
TruncationBudget ==
    4000

\* Python's None; no str equals it, since the elements of a str are
\* single characters
None ==
    <<"None">>

(***************************************************************************)
(* str operations used by the program.                                     *)
(***************************************************************************)
\* `c in s` for a one-character c
Contains(s, c) ==
    \E i \in 1..Len(s) : s[i] = c

\* index of the first occurrence of c in s (c occurs in s)
Find(s, c) ==
    CHOOSE i \in 1..Len(s) : s[i] = c /\ \A j \in 1..(i - 1) : s[j] # c

\* a split at the last c instead (rsplit)
Split1Last(s, c) ==
    LET k == CHOOSE i \in 1..Len(s) :
                 s[i] = c /\ \A j \in (i + 1)..Len(s) : s[j] # c
    IN  <<SubSeq(s, 1, k - 1), SubSeq(s, k + 1, Len(s))>>

\* s.split(c, 1) for an s that contains c: the text before the first c
\* and the text after it
Split1(s, c) ==
    <<SubSeq(s, 1, Find(s, c) - 1), SubSeq(s, Find(s, c) + 1, Len(s))>>

UpperCase ==
    <<"A", "B", "C", "D", "E", "F", "G", "H", "I", "J", "K", "L", "M",
      "N", "O", "P", "Q", "R", "S", "T", "U", "V", "W", "X", "Y", "Z">>

LowerCase ==
    <<"a", "b", "c", "d", "e", "f", "g", "h", "i", "j", "k", "l", "m",
      "n", "o", "p", "q", "r", "s", "t", "u", "v", "w", "x", "y", "z">>

\* lower-casing of one character (the ASCII letters; every other
\* character of the model has no case)
LowerChar(c) ==
    IF \E i \in 1..Len(UpperCase) : UpperCase[i] = c
    THEN LowerCase[CHOOSE i \in 1..Len(UpperCase) : UpperCase[i] = c]
    ELSE c

\* a mis-written lower() that leaves the text as typed
LowerKeep(s) ==
    s

\* s.lower()
Lower(s) ==
    [i \in 1..Len(s) |-> LowerChar(s[i])]

\* a replace that rewrites only the first occurrence (count = 1)
ReplaceFirst(s, old, new) ==
    [i \in 1..Len(s) |->
        IF s[i] = old /\ \A j \in 1..(i - 1) : s[j] # old THEN new ELSE s[i]]

\* s.replace(old, new) for one-character old and new
Replace(s, old, new) ==
    [i \in 1..Len(s) |-> IF s[i] = old THEN new ELSE s[i]]

\* characters str.strip() removes (the ASCII whitespace)
Whitespace ==
    {" ", "\t", "\n", "\r", "\f"}

RECURSIVE LStrip(_)
\* s.lstrip()
LStrip(s) ==
    IF s # <<>> /\ Head(s) \in Whitespace THEN LStrip(Tail(s)) ELSE s

RECURSIVE RStrip(_)
\* s.rstrip()
RStrip(s) ==
    IF s # <<>> /\ s[Len(s)] \in Whitespace
    THEN RStrip(SubSeq(s, 1, Len(s) - 1))
    ELSE s

\* a strip that trims the left side only
StripLeftOnly(s) ==
    LStrip(s)

\* s.strip()
Strip(s) ==
    RStrip(LStrip(s))

\* a slice that keeps one character too many
SliceOffByOne(s, n) ==
    SubSeq(s, 1, IF Len(s) < n + 1 THEN Len(s) ELSE n + 1)

\* s[:n]
Slice(s, n) ==
    SubSeq(s, 1, IF Len(s) < n THEN Len(s) ELSE n)

\* every str of at most n characters over the alphabet S
Strings(S, n) ==
    UNION {[1..k -> S] : k \in 0..n}

(***************************************************************************)
(* normalize_path                                                          *)
(***************************************************************************)
\* a test that forgets the backslash
IsDrivePathColonOnly(path) ==
    Contains(path, ":")

\* the test of line 5: `":" in path and "\\" in path`
IsDrivePath(path) ==
    Contains(path, ":") /\ Contains(path, "\\")

normalize_path(path) ==
    IF IsDrivePath(path)
    THEN LET parts == Split1(path, ":")
             drive == Lower(parts[1])
             rest  == Replace(parts[2], "\\", "/")
         IN  Mnt \o drive \o rest
    ELSE path

(***************************************************************************)
(* The world main runs in: the environment variable, what the user types, *)
(* the files on disk, and what the endpoint may answer.                    *)
(***************************************************************************)
\* 'You are a helpful assistant.'
SystemMsg ==
    <<"Y", "o", "u", " ", "a", "r", "e", " ", "a", " ", "h", "e", "l", "p",
      "f", "u", "l", " ", "a", "s", "s", "i", "s", "t", "a", "n", "t", ".">>

\* values os.getenv("GEMINI_API_KEY") can return: unset, empty, set
KeyValues ==
    {None, <<>>, <<"k">>}

\* a document of n characters; its last MaxExtra characters are "#"
Document(n) ==
    [i \in 1..n |->
        IF i > n - MaxExtra THEN "#" ELSE IF i % 2 = 0 THEN "d" ELSE "o"]

\* '/mnt/c/a'
PathMntCA ==
    <<"/", "m", "n", "t", "/", "c", "/", "a">>

\* '/l'
PathLong ==
    <<"/", "l">>

\* '/m'
PathFull ==
    <<"/", "m">>

\* '/u'
PathBad ==
    <<"/", "u">>

\* the files on disk: a short document, one of exactly the budget, one
\* longer than the budget, and a file that is not valid UTF-8
Files ==
    { [path |-> PathMntCA, text |-> Document(2), utf8 |-> TRUE],
      [path |-> PathFull, text |-> Document(TruncationBudget), utf8 |-> TRUE],
      [path |-> PathLong, text |-> Document(TruncationBudget + MaxExtra),
       utf8 |-> TRUE],
      [path |-> PathBad, text |-> <<>>, utf8 |-> FALSE] }

\* os.path.exists(p)
Exists(p) ==
    \E f \in Files : f.path = p

FileAt(p) ==
    CHOOSE f \in Files : f.path = p

\* lines the user may type at the path prompt
RawPaths ==
    { <<" ", "C", ":", "\\", "a", " ">>,
      <<"D", ":", "\\", "a">>,
      <<"/", "l">>,
      <<"/", "m", "\n">>,
      <<"/", "u">>,
      <<>> }

\* lines the user may type at the question prompt
RawQuestions ==
    { <<>>, <<" ", "q", "?", " ">> }

\* message.content of a choice: None or text
Contents ==
    {None} \cup Strings({" ", "a"}, MaxAnswerLen)

\* message.content of the choices after the first, which main never
\* reads: None or a text no first choice carries
LaterContents ==
    {None, <<"b">>}

Choice(c) ==
    [message |-> [content |-> c]]

\* responses client.chat.completions.create can return: no choice, or a
\* first choice followed by up to MaxChoices - 1 more
Responses ==
    {[choices |-> <<>>]} \cup
    UNION { { [choices |-> <<Choice(c)>> \o [i \in 1..k |-> Choice(later[i])]] :
                c \in Contents, later \in [1..k -> LaterContents] } :
            k \in 0..(MaxChoices - 1) }

(***************************************************************************)
(* State.                                                                  *)
(***************************************************************************)
VARIABLES
    environ,    \* value of GEMINI_API_KEY in the process environment
    pc,         \* line main is about to execute, or "returned"/"raised"
    exc,        \* the exception main ended with, "" when none
    api_key, client, file_path, content, question, prompt, response,
                \* locals of main, None while unassigned
    requests,   \* chat-completion requests issued to the endpoint
    trace,      \* effects of the run in order: [op, arg, ok]
    np_pc, np_in, np_out, np_again
                \* a call normalize_path(np_in), its result np_out, and
                \* the result np_again of normalising np_out once more

mainVars ==
    <<environ, pc, exc, api_key, client, file_path, content, question,
      prompt, response, requests, trace>>

npVars ==
    <<np_pc, np_in, np_out, np_again>>

vars ==
    <<environ, pc, exc, api_key, client, file_path, content, question,
      prompt, response, requests, trace, np_pc, np_in, np_out, np_again>>

Ev(op, arg, ok) ==
    [op |-> op, arg |-> arg, ok |-> ok]

\* a truth test that takes only None for false
FalsyNoneOnly(v) ==
    v = None

\* `not v` for a value that is None or a str
Falsy(v) ==
    v = None \/ v = <<>>

\* a choice picker that takes the last choice
LastChoice(r) ==
    r.choices[Len(r.choices)]

\* response.choices[0]
FirstChoice(r) ==
    r.choices[1]

\* the f-string of lines 37-45
PromptOf(doc, q) ==
    PromptHead \o Slice(doc, TruncationBudget) \o PromptMid \o q
        \o PromptTail

\* the arguments of client.chat.completions.create, lines 47-54
RequestOf(p) ==
    [model |-> "gemini-2.0-flash",
     messages |-> <<[role |-> "system", content |-> SystemMsg],
                    [role |-> "user", content |-> p]>>,
     temperature |-> "0.3"]

MainInit ==
    /\ pc = "L14"
    /\ exc = ""
    /\ api_key = None
    /\ client = None
    /\ file_path = None
    /\ content = None
    /\ question = None
    /\ prompt = None
    /\ response = None
    /\ requests = <<>>
    /\ trace = <<>>

Init ==
    /\ environ \in KeyValues
    /\ MainInit
    /\ np_pc = "idle"
    /\ np_in = <<>>
    /\ np_out = <<>>
    /\ np_again = <<>>

\* raise: main ends with exception e
Raise(e) ==
    /\ exc' = e
    /\ pc' = "raised"

(***************************************************************************)
(* main, one action per statement.                                         *)
(***************************************************************************)
\* line 14: api_key = os.getenv("GEMINI_API_KEY")
GetEnv ==
    /\ pc = "L14"
    /\ api_key' = environ
    /\ trace' = Append(trace, Ev("getenv", <<>>, TRUE))
    /\ pc' = "L15"
    /\ UNCHANGED <<environ, exc, client, file_path, content, question,
                   prompt, response, requests>>
    /\ UNCHANGED npVars

\* lines 15-16: if not api_key: raise ValueError(...)
CheckKey ==
    /\ pc = "L15"
    /\ IF Falsy(api_key)
       THEN Raise("ValueError")
       ELSE pc' = "L19" /\ exc' = exc
    /\ UNCHANGED <<environ, api_key, client, file_path, content, question,
                   prompt, response, requests, trace>>
    /\ UNCHANGED npVars

\* lines 19-22: client = OpenAI(api_key=..., base_url=...)
CreateClient ==
    /\ pc = "L19"
    /\ client' =
          [api_key |-> api_key,
           base_url |->
             "https://generativelanguage.googleapis.com/v1beta/openai/"]
    /\ pc' = "L25"
    /\ UNCHANGED <<environ, exc, api_key, file_path, content, question,
                   prompt, response, requests, trace>>
    /\ UNCHANGED npVars

\* line 25: file_path = normalize_path(input(...).strip()); input raises
\* EOFError when standard input is exhausted
InputPath ==
    /\ pc = "L25"
    /\ \/ \E typed \in RawPaths :
             /\ file_path' = normalize_path(Strip(typed))
             /\ trace' = Append(trace, Ev("input", PathPrompt, TRUE))
             /\ pc' = "L26"
             /\ exc' = exc
       \/ /\ trace' = Append(trace, Ev("input", PathPrompt, FALSE))
          /\ Raise("EOFError")
          /\ file_path' = file_path
    /\ UNCHANGED <<environ, api_key, client, content, question, prompt,
                   response, requests>>
    /\ UNCHANGED npVars

\* an existence check whose not-found branch lacks the return
CheckExistsNoReturn ==
    /\ pc = "L26"
    /\ IF Exists(file_path)
       THEN trace' = Append(trace, Ev("exists", file_path, TRUE))
       ELSE trace' = Append(Append(trace,
                            Ev("exists", file_path, FALSE)),
                            Ev("print", NotFoundMsg, TRUE))
    /\ pc' = "L30"
    /\ UNCHANGED <<environ, exc, api_key, client, file_path, content,
                   question, prompt, response, requests>>
    /\ UNCHANGED <<np_pc, np_in, np_out, np_again>>

\* lines 26-28: if not os.path.exists(file_path): print(...); return
CheckExists ==
    /\ pc = "L26"
    /\ IF Exists(file_path)
       THEN /\ trace' = Append(trace, Ev("exists", file_path, TRUE))
            /\ pc' = "L30"
       ELSE /\ trace' = Append(Append(trace,
                            Ev("exists", file_path, FALSE)),
                            Ev("print", NotFoundMsg, TRUE))
            /\ pc' = "returned"
    /\ UNCHANGED <<environ, exc, api_key, client, file_path, content,
                   question, prompt, response, requests>>
    /\ UNCHANGED npVars

\* lines 30-31: with open(file_path, "r", encoding="utf-8") as f:
\* content = f.read(); open raises FileNotFoundError for a missing file,
\* read raises UnicodeDecodeError for a file that is not UTF-8
ReadFile ==
    /\ pc = "L30"
    /\ IF ~Exists(file_path)
       THEN /\ trace' = Append(trace, Ev("read", file_path, FALSE))
            /\ Raise("FileNotFoundError")
            /\ content' = content
       ELSE IF FileAt(file_path).utf8
       THEN /\ content' = FileAt(file_path).text
            /\ trace' = Append(trace, Ev("read", file_path, TRUE))
            /\ pc' = "L34"
            /\ exc' = exc
       ELSE /\ trace' = Append(trace, Ev("read", file_path, FALSE))
            /\ Raise("UnicodeDecodeError")
            /\ content' = content
    /\ UNCHANGED <<environ, api_key, client, file_path, question, prompt,
                   response, requests>>
    /\ UNCHANGED npVars

\* line 34: question = input(...).strip()
InputQuestion ==
    /\ pc = "L34"
    /\ \/ \E typed \in RawQuestions :
             /\ question' = Strip(typed)
             /\ trace' = Append(trace, Ev("input", QuestionPrompt, TRUE))
             /\ pc' = "L37"
             /\ exc' = exc
       \/ /\ trace' = Append(trace, Ev("input", QuestionPrompt, FALSE))
          /\ Raise("EOFError")
          /\ question' = question
    /\ UNCHANGED <<environ, api_key, client, file_path, content, prompt,
                   response, requests>>
    /\ UNCHANGED npVars

\* lines 37-45: prompt = f"""..."""
BuildPrompt ==
    /\ pc = "L37"
    /\ prompt' = PromptOf(content, question)
    /\ trace' = Append(trace, Ev("format", <<>>, TRUE))
    /\ pc' = "L47"
    /\ UNCHANGED <<environ, exc, api_key, client, file_path, content,
                   question, response, requests>>
    /\ UNCHANGED npVars

\* a request that is issued again when the client raises
RequestRetry ==
    /\ pc = "L47"
    /\ requests' = Append(requests, RequestOf(prompt))
    /\ \/ \E r \in Responses :
             /\ response' = r
             /\ trace' = Append(trace, Ev("request", <<>>, TRUE))
             /\ pc' = "L56"
       \/ /\ trace' = Append(trace, Ev("request", <<>>, FALSE))
          /\ Len(requests) < 2
          /\ pc' = "L47"
          /\ response' = response
    /\ UNCHANGED <<environ, exc, api_key, client, file_path, content,
                   question, prompt>>
    /\ UNCHANGED <<np_pc, np_in, np_out, np_again>>

\* lines 47-54: response = client.chat.completions.create(...); the call
\* blocks until the endpoint answers or the client raises
Request ==
    /\ pc = "L47"
    /\ requests' = Append(requests, RequestOf(prompt))
    /\ \/ \E r \in Responses :
             /\ response' = r
             /\ trace' = Append(trace, Ev("request", <<>>, TRUE))
             /\ pc' = "L56"
             /\ exc' = exc
       \/ /\ trace' = Append(trace, Ev("request", <<>>, FALSE))
          /\ Raise("APIError")
          /\ response' = response
    /\ UNCHANGED <<environ, api_key, client, file_path, content, question,
                   prompt>>
    /\ UNCHANGED npVars

\* line 56: print("\n=== Answer ===")
PrintHeader ==
    /\ pc = "L56"
    /\ trace' = Append(trace, Ev("print", AnswerHeader, TRUE))
    /\ pc' = "L57"
    /\ UNCHANGED <<environ, exc, api_key, client, file_path, content,
                   question, prompt, response, requests>>
    /\ UNCHANGED npVars

\* line 57: print(response.choices[0].message.content.strip()); an empty
\* choice list raises IndexError, a None content AttributeError
PrintAnswer ==
    /\ pc = "L57"
    /\ IF response.choices = <<>>
       THEN Raise("IndexError") /\ trace' = trace
       ELSE IF FirstChoice(response).message.content = None
       THEN Raise("AttributeError") /\ trace' = trace
       ELSE /\ trace' = Append(trace,
                  Ev("print", Strip(FirstChoice(response).message.content),
                     TRUE))
            /\ pc' = "returned"
            /\ exc' = exc
    /\ UNCHANGED <<environ, api_key, client, file_path, content, question,
                   prompt, response, requests>>
    /\ UNCHANGED npVars

Next ==
    \/ GetEnv
    \/ CheckKey
    \/ CreateClient
    \/ InputPath
    \/ CheckExists
    \/ ReadFile
    \/ InputQuestion
    \/ BuildPrompt
    \/ Request
    \/ PrintHeader
    \/ PrintAnswer

Spec ==
    Init /\ [][Next]_vars

(***************************************************************************)
(* normalize_path on its own: every input up to MaxPathLen characters.     *)
(***************************************************************************)
PathAlphabet ==
    {"C", "c", ":", "\\", "/"}

NormInit ==
    /\ environ = None
    /\ MainInit
    /\ np_pc = "call"
    /\ np_in \in Strings(PathAlphabet, MaxPathLen)
    /\ np_out = <<>>
    /\ np_again = <<>>

\* np_out = normalize_path(np_in)
Normalize ==
    /\ np_pc = "call"
    /\ np_out' = normalize_path(np_in)
    /\ np_pc' = "once"
    /\ UNCHANGED <<np_in, np_again>>
    /\ UNCHANGED mainVars

\* np_again = normalize_path(np_out)
NormalizeAgain ==
    /\ np_pc = "once"
    /\ np_again' = normalize_path(np_out)
    /\ np_pc' = "twice"
    /\ UNCHANGED <<np_in, np_out>>
    /\ UNCHANGED mainVars

NormNext ==
    \/ Normalize
    \/ NormalizeAgain

NormSpec ==
    NormInit /\ [][NormNext]_vars

(***************************************************************************)
(* Vocabulary of the properties.                                           *)
(***************************************************************************)
\* the arguments of the print calls of the run, in order
Printed ==
    LET IsPrint(e) == e.op = "print"
        P == SelectSeq(trace, IsPrint)
    IN  [i \in 1..Len(P) |-> P[i].arg]

\* the input prompts displayed so far, in order
Prompted ==
    LET IsInput(e) == e.op = "input"
        P == SelectSeq(trace, IsInput)
    IN  [i \in 1..Len(P) |-> P[i].arg]

\* the endpoint has returned a response
Responded ==
    \E i \in 1..Len(trace) : trace[i].op = "request" /\ trace[i].ok

Ended ==
    pc \in {"returned", "raised"}

\* position of an effect in the order credential, path input, file,
\* question input, prompt, request, answer
Stage(e) ==
    CASE e.op = "getenv" -> 1
      [] e.op = "input" /\ e.arg = PathPrompt -> 2
      [] e.op \in {"exists", "read"} -> 3
      [] e.op = "print" /\ e.arg = NotFoundMsg -> 3
      [] e.op = "input" /\ e.arg = QuestionPrompt -> 4
      [] e.op = "format" -> 5
      [] e.op = "request" -> 6
      [] OTHER -> 7

\* t is s without its leading and trailing whitespace
IsTrimOf(t, s) ==
    \E a \in 0..Len(s) : \E b \in 0..(Len(s) - a) :
        /\ \A i \in 1..a : s[i] \in Whitespace
        /\ \A i \in (Len(s) - b + 1)..Len(s) : s[i] \in Whitespace
        /\ t = SubSeq(s, a + 1, Len(s) - b)
        /\ t # <<>> => t[1] \notin Whitespace /\ t[Len(t)] \notin Whitespace

\* k is the index of the first ":" of s
FirstColon(s, k) ==
    /\ k \in 1..Len(s)
    /\ s[k] = ":"
    /\ \A j \in 1..(k - 1) : s[j] # ":"

Slashed(c) ==
    IF c = "\\" THEN "/" ELSE c

(***************************************************************************)
(* Properties of main (Spec).                                              *)
(***************************************************************************)
\* C1: when GEMINI_API_KEY is unset or empty the run can only end in the
\* configuration fault (ValueError), and up to then no prompt has been
\* displayed, no file checked or read and no request issued.
C1_MissingCredentialFaultsBeforeIO ==
    (environ = None \/ environ = <<>>) =>
        /\ pc \in {"L14", "L15", "raised"}
        /\ pc = "raised" => exc = "ValueError"
        /\ pc # "raised" => exc = ""
        /\ \A i \in 1..Len(trace) : trace[i].op = "getenv"
        /\ requests = <<>>

C1_Witness ==
    /\ environ = <<>>
    /\ pc = "raised"
    /\ exc = "ValueError"
    /\ Len(trace) = 1

\* C2: when the credential is set and the normalized path does not exist,
\* the run prints exactly "File not found.", never asks the question,
\* issues no request and returns normally.
C2_NotFoundReturnsCleanly ==
    (file_path # None /\ ~Exists(file_path)) =>
        /\ pc \in {"L26", "returned"}
        /\ exc = ""
        /\ requests = <<>>
        /\ Prompted = <<PathPrompt>>
        /\ \A i \in 1..Len(trace) : trace[i].op # "read"
        /\ Printed = IF pc = "returned" THEN <<NotFoundMsg>> ELSE <<>>

C2_Witness ==
    /\ file_path = <<"/", "m", "n", "t", "/", "d", "/", "a">>
    /\ pc = "returned"
    /\ Printed = <<NotFoundMsg>>

\* C3: the document text in the prompt of every request is exactly the
\* first min(4000, length) characters of the file's content, set between
\* the fixed template parts; of a longer document no character beyond the
\* first 4000 (in the model those are "#") is in the request.
C3_PromptEmbedsTruncatedDocument ==
    \A r \in 1..Len(requests) :
        LET p == requests[r].messages[2].content
            n == IF Len(content) < 4000 THEN Len(content) ELSE 4000
            h == Len(PromptHead)
        IN  /\ Len(p) = h + n + Len(PromptMid) + Len(question)
                          + Len(PromptTail)
            /\ SubSeq(p, 1, h) = PromptHead
            /\ \A i \in 1..n : p[h + i] = content[i]
            /\ SubSeq(p, h + n + 1, Len(p)) =
                   PromptMid \o question \o PromptTail
            /\ \A j \in 4001..Len(content) :
                   \A i \in 1..Len(p) : p[i] # content[j]

C3_Witness ==
    /\ Len(requests) = 1
    /\ Len(content) > 4000
    /\ Len(requests[1].messages[2].content) > 4000

\* C6: when the endpoint returns a response whose first choice carries
\* text, the run ends by printing the header "\n=== Answer ===" and then
\* that text without its leading and trailing whitespace, and nothing
\* else after the request; text of later choices is not printed.
C6_PrintsTrimmedFirstChoice ==
    (/\ Ended
     /\ Responded
     /\ response.choices # <<>>
     /\ response.choices[1].message.content # None) =>
        /\ pc = "returned"
        /\ exc = ""
        /\ Len(Printed) = 2
        /\ Printed[1] = <<"\n", "=", "=", "=", " ", "A", "n", "s", "w",
                          "e", "r", " ", "=", "=", "=">>
        /\ IsTrimOf(Printed[2], response.choices[1].message.content)

C6_Witness ==
    /\ pc = "returned"
    /\ Responded
    /\ Len(response.choices) = 2
    /\ response.choices[1].message.content = <<" ", "a">>
    /\ response.choices[2].message.content = <<"b">>
    /\ Printed = <<AnswerHeader, <<"a">> >>

\* C7: the effects of a run follow the order credential, path input, file,
\* question input, prompt, request, answer: an effect of a later step
\* comes only after every earlier step has happened and succeeded, and a
\* run issues at most one request.
C7_StepsInOrderOneRequest ==
    /\ Len(requests) <= 1
    /\ Cardinality({i \in 1..Len(trace) : trace[i].op = "request"})
           = Len(requests)
    /\ \A i \in 1..Len(trace) : \A j \in (i + 1)..Len(trace) :
           /\ Stage(trace[i]) <= Stage(trace[j])
           /\ Stage(trace[i]) < Stage(trace[j]) => trace[i].ok
    /\ \A j \in 1..Len(trace) : \A s \in 1..(Stage(trace[j]) - 1) :
           \E i \in 1..(j - 1) : Stage(trace[i]) = s /\ trace[i].ok
    /\ prompt # None =>
           \E i \in 1..Len(trace) : Stage(trace[i]) = 4 /\ trace[i].ok
    /\ Ended /\ exc # "" =>
           \A i \in 1..(Len(trace) - 1) :
               trace[i].ok \/ Stage(trace[i]) = Stage(trace[Len(trace)])

C7_Witness ==
    /\ pc = "returned"
    /\ Len(requests) = 1
    /\ Len(trace) = 9
    /\ Stage(trace[9]) = 7

\* C8: a run that ends in a fault other than the missing credential has
\* printed no answer output, neither the header nor answer text, and has
\* issued at most one request.
C8_NoAnswerOutputOnFault ==
    (pc = "raised" /\ exc # "ValueError") =>
        /\ Printed = <<>>
        /\ Len(requests) <= 1

(***************************************************************************)
(* Properties of normalize_path (NormSpec).                                *)
(***************************************************************************)
\* C4 (as stated): for an input with both ":" and "\", the output is
\* "/mnt/", then the lower-cased single character that preceded the first
\* ":", then the remainder with every "\" replaced by "/".
C4_SingleDriveCharacter ==
    (np_pc # "call" /\ Contains(np_in, ":") /\ Contains(np_in, "\\")) =>
        \E k \in 2..Len(np_in) :
            /\ FirstColon(np_in, k)
            /\ np_out = <<"/", "m", "n", "t", "/">>
                   \o <<LowerChar(np_in[k - 1])>>
                   \o [j \in 1..(Len(np_in) - k) |-> Slashed(np_in[k + j])]

\* C4 (amended): for an input with both ":" and "\", the output is
\* "/mnt/", then the whole text that preceded the first ":" lower-cased
\* (whatever its length, none included), then the remainder with every
\* "\" replaced by "/".
C4_MountPrefixDriveRest ==
    (np_pc # "call" /\ Contains(np_in, ":") /\ Contains(np_in, "\\")) =>
        \E k \in 1..Len(np_in) :
            /\ FirstColon(np_in, k)
            /\ Len(np_out) = Len(np_in) + 4
            /\ SubSeq(np_out, 1, 5) = <<"/", "m", "n", "t", "/">>
            /\ \A i \in 1..(k - 1) : np_out[5 + i] = LowerChar(np_in[i])
            /\ \A j \in (k + 1)..Len(np_in) :
                   np_out[4 + j] = Slashed(np_in[j])

C4_Witness ==
    /\ np_pc = "once"
    /\ np_in = <<"C", "c", ":", "\\">>
    /\ np_out = <<"/", "m", "n", "t", "/", "c", "c", "/">>

\* C5: an input that lacks ":" or lacks "\" (the empty string included)
\* is returned unchanged.
C5_IdentityOtherwise ==
    (np_pc # "call" /\ ~(Contains(np_in, ":") /\ Contains(np_in, "\\"))) =>
        np_out = np_in

C5_Witness ==
    /\ np_pc = "once"
    /\ np_in = <<"C", ":", "/", "c">>
    /\ np_out = np_in

\* C9 (as stated): for an input with both ":" and "\", the output starts
\* with "/mnt/" and contains no "\".
C9_NoBackslashInOutput ==
    (np_pc # "call" /\ Contains(np_in, ":") /\ Contains(np_in, "\\")) =>
        /\ SubSeq(np_out, 1, 5) = Mnt
        /\ ~Contains(np_out, "\\")

\* C9 (amended): for an input with both ":" and "\", the output starts
\* with "/mnt/" and every "\" in it is one that stood before the first ":"
\* of the input; so the part after the drive text has no "\", and the
\* whole output has none when no "\" precedes the first ":".
C9_BackslashOnlyFromDrive ==
    (np_pc # "call" /\ Contains(np_in, ":") /\ Contains(np_in, "\\")) =>
        \E k \in 1..Len(np_in) :
            /\ FirstColon(np_in, k)
            /\ SubSeq(np_out, 1, 5) = Mnt
            /\ \A i \in 1..Len(np_out) :
                   np_out[i] = "\\" =>
                       /\ i > 5
                       /\ i - 5 < k
                       /\ np_in[i - 5] = "\\"

C9_Witness ==
    /\ np_pc = "once"
    /\ np_in = <<"C", ":", "\\", "\\">>
    /\ ~Contains(np_out, "\\")

\* the inputs normalize_path rewrites twice: a "\" stands before the
\* first ":" and a further ":" follows it
RewrittenTwice(s) ==
    \E k \in 1..Len(s) :
        /\ FirstColon(s, k)
        /\ \E i \in 1..(k - 1) : s[i] = "\\"
        /\ \E j \in (k + 1)..Len(s) : s[j] = ":"

\* C10 (as stated): normalising the result of normalize_path again
\* gives the same result, for every input.
C10_Idempotent ==
    np_pc = "twice" => np_again = np_out

\* C10 (amended): normalising the result again gives the same result
\* exactly for the inputs that do not have both a "\" before their first
\* ":" and a further ":" after it.
C10_IdempotentUnlessRewrittenTwice ==
    np_pc = "twice" => (np_again = np_out <=> ~RewrittenTwice(np_in))

C10_Witness ==
    /\ np_pc = "twice"
    /\ np_in = <<"C", ":", "\\", ":">>
    /\ np_out = <<"/", "m", "n", "t", "/", "c", "/", ":">>
    /\ np_again = np_out
====
